---- MODULE Spec2Model ----
(***************************************************************************)
(* Model of the KubeMinder API gateway queue relay                         *)
(* (backend/api_gateway/main.py, forward_plans_to_approved).               *)
(*                                                                         *)
(* One relay pass opens a broker connection, repeatedly basic_get()s one   *)
(* message of q.plans.proposed, decodes it with json.loads, stamps it,     *)
(* basic_publish()es it to q.plans.approved, basic_ack()s the delivery and *)
(* counts it, until basic_get() reports an empty queue.  Every broker call *)
(* is one step of the model and every broker call may raise.               *)
(***************************************************************************)
EXTENDS Integers, Sequences, FiniteSets, TLC

(* ----------------------------- bounds ---------------------------------- *)
MaxProduced == 3   \* messages the producers publish to q.plans.proposed
MaxFailures == 1   \* broker calls that raise
MaxPasses   == 2   \* invocations of the handler

(* ------------------------- wire payloads ------------------------------- *)
\* A message body on the wire: bytes.  kind tells what json.loads makes of
\* them; pairs are the members of a JSON object in the order written (a
\* JSON text may repeat a key).
Obj(ps) == [kind |-> "object", pairs |-> ps]

NotJson == [kind |-> "bytes", pairs |-> <<>>]   \* not-json

JsonList == [kind |-> "list", pairs |-> <<>>]   \* [1, 2]

\* {"id": "1", "status": "pending", "id": "2"}: a plan that carries one of
\* the two keys the relay sets, and a repeated key
Plan == Obj(<< <<"id", "1">>, <<"status", "pending">>, <<"id", "2">> >>)

\* what a producer may publish
Bodies == {Plan, NotJson, JsonList}

(* --------------------------- Python dict ------------------------------- *)
\* A dict is its items in insertion order, keys unique.
Keys(d) == {d[i][1] : i \in 1..Len(d)}

HasKey(d, k) == \E i \in 1..Len(d) : d[i][1] = k

DictGet(d, k) == LET i == CHOOSE j \in 1..Len(d) : d[j][1] = k IN d[i][2]

\* d[k] = v : an existing key keeps its position, a new key is appended.
DictSet(d, k, v) ==
    IF HasKey(d, k)
    THEN [i \in 1..Len(d) |-> IF d[i][1] = k THEN <<k, v>> ELSE d[i]]
    ELSE Append(d, <<k, v>>)

\* dict(pairs): a key sits where it first occurs and holds the value of its
\* last occurrence.
DictOfPairs(ps) ==
    LET first   == {i \in 1..Len(ps) : \A j \in 1..(i - 1) : ps[j][1] # ps[i][1]}
        nth(n)  == CHOOSE i \in first : Cardinality({j \in first : j <= i}) = n
        last(k) == CHOOSE i \in 1..Len(ps) :
                      ps[i][1] = k /\ \A j \in (i + 1)..Len(ps) : ps[j][1] # k
    IN  [n \in 1..Cardinality(first) |->
            <<ps[nth(n)][1], ps[last(ps[nth(n)][1])][2]>>]

(* ------------------------------ codec ---------------------------------- *)
\* json.loads(body): raises on bytes that are not JSON, otherwise returns
\* the Python value: a dict for a JSON object (the last of repeated keys
\* wins); for any other JSON text a value of another type (list, int, str).
json_loads(body) ==
    CASE body.kind = "bytes"  -> [raised |-> TRUE,  type |-> "none", value |-> <<>>]
      [] body.kind = "object" -> [raised |-> FALSE, type |-> "dict",
                                  value |-> DictOfPairs(body.pairs)]
      [] OTHER                -> [raised |-> FALSE, type |-> body.kind, value |-> <<>>]

\* json.dumps(plan) of a dict: the items in insertion order.
json_dumps(plan) == Obj(plan)

\* variant: plan.setdefault(...) keeps a value the message already carries
Approve_setdefault(plan) ==
    LET a == IF HasKey(plan, "status") THEN plan ELSE DictSet(plan, "status", "approved")
    IN  IF HasKey(a, "approved_by") THEN a ELSE DictSet(a, "approved_by", "gateway")

\* variant: a fresh dict with the two reserved keys only is published
Approve_fresh(plan) == << <<"status", "approved">>, <<"approved_by", "gateway">> >>

\* plan["status"] = "approved"; plan["approved_by"] = "gateway"
Approve(plan) == DictSet(DictSet(plan, "status", "approved"), "approved_by", "gateway")

\* Item assignment is defined on dict only; on list, int and str it raises
\* TypeError.
SupportsItemAssignment(v) == v.type = "dict"

(* ----------------------------- health data ---------------------------- *)
\* AGENT_ENDPOINTS.items(): the agents in the insertion order of the dict
AGENT_ENDPOINTS == <<"planner", "collaborator", "actor", "learner">>

Agents == {AGENT_ENDPOINTS[i] : i \in 1..Len(AGENT_ENDPOINTS)}

\* what an agent may answer to GET /health: a JSON body with status 200 or
\* 503, or a body that is not JSON
Responses ==
    {[status_code |-> 200, body |-> Obj(<< <<"status", "ok">> >>)],
     [status_code |-> 503, body |-> Obj(<< <<"status", "down">> >>)],
     [status_code |-> 200, body |-> NotJson]}

\* what client.get(..., timeout=5.0) may raise
ProbeErrors == {"ReadTimeout", "ConnectError"}

\* no entry under this key yet
Absent == [status |-> "absent"]

\* the body of the try for one agent: response.json() raises on a body that
\* is not JSON, which the except turns into the unhealthy entry; the status
\* code is not looked at
HealthEntry(response) ==
    LET v == json_loads(response.body)
    IN  IF v.raised
        THEN [status |-> "unhealthy", error |-> "JSONDecodeError"]
        ELSE [status |-> "healthy", response |-> v]

(* ------------------------------ state ---------------------------------- *)
\* the gateway workers that may run the handler (Spec runs worker 1 alone)
Passes == {1, 2}

NoMsg == [id |-> 0, body |-> NotJson]
None  == [status |-> "none"]

VARIABLES
    q_plans_proposed,  \* ready messages of the source queue, head first
    q_plans_approved,  \* destination queue: [body, src, by] (made from delivery src by pass by)
    abandoned,         \* deliveries un-acked on connections of aborted passes
    acked,             \* deliveries removed from the source by basic_ack
    nextId,            \* broker's enqueue counter of the source queue
    produced,          \* messages added by the producer so far
    failures,          \* broker calls that have raised so far
    invocations,       \* invocations of the handler so far
    pc,                \* per pass: position in the handler
    connection,        \* per pass: "none", "open", "closed"
    unacked,           \* per pass: the delivery its channel holds un-acked (NoMsg if none)
    plan,              \* per pass: the decoded dict
    forwarded_count,   \* per pass
    result,            \* per pass: what the caller receives
    fetched,           \* per pass: deliveries basic_get returned, in order
    startQ,            \* per pass: q_plans_proposed at invocation
    destStart,         \* per pass: Len(q_plans_approved) at invocation
    quiet,             \* per pass: no producer or redelivery since invocation
    emptySeen,         \* per pass: nextId when basic_get reported empty (0: not yet)
    ackLog,            \* per pass: deliveries it has basic_ack'ed since invocation, in order
    hpc,               \* position in health_check: "idle", "loop", "await", "returned"
    agent_i,           \* health_check: index in AGENT_ENDPOINTS of the loop's agent
    health_status,     \* health_check: agent -> entry (Absent before it is assigned)
    health_result,     \* what health_check returned
    probes             \* per agent: what its probe did ("none", "pending", or the outcome)

brokerVars == <<q_plans_proposed, q_plans_approved, abandoned, acked, nextId,
                produced, failures, invocations>>
passVars   == <<pc, connection, unacked, plan, forwarded_count, result>>
ghostVars  == <<fetched, startQ, destStart, quiet, emptySeen, ackLog>>
healthVars == <<hpc, agent_i, health_status, health_result, probes>>
vars       == <<brokerVars, passVars, ghostVars, healthVars>>

\* a broker just started: both queues empty, no handler invoked
Init ==
    /\ q_plans_proposed = <<>>
    /\ nextId = 1
    /\ q_plans_approved = <<>>
    /\ abandoned = {}
    /\ acked = {}
    /\ produced = 0
    /\ failures = 0
    /\ invocations = 0
    /\ pc = [p \in Passes |-> "idle"]
    /\ connection = [p \in Passes |-> "none"]
    /\ unacked = [p \in Passes |-> NoMsg]
    /\ plan = [p \in Passes |-> <<>>]
    /\ forwarded_count = [p \in Passes |-> 0]
    /\ result = [p \in Passes |-> None]
    /\ fetched = [p \in Passes |-> <<>>]
    /\ startQ = [p \in Passes |-> <<>>]
    /\ destStart = [p \in Passes |-> 0]
    /\ quiet = [p \in Passes |-> TRUE]
    /\ emptySeen = [p \in Passes |-> 0]
    /\ ackLog = [p \in Passes |-> <<>>]
    /\ hpc = "idle"
    /\ agent_i = 1
    /\ health_status = [a \in Agents |-> Absent]
    /\ health_result = None
    /\ probes = [a \in Agents |-> [kind |-> "none"]]

(* ---------------------------- environment ------------------------------ *)
Running(p) == pc[p] \in {"get", "ack_bad", "publish", "ack", "close"}
Ended(p)   == pc[p] \in {"done", "aborted"}

\* the source queue changes behind the back of the passes invoked so far
Disturb == quiet' = [p \in Passes |-> IF pc[p] = "idle" THEN quiet[p] ELSE FALSE]

\* the broker puts a redelivered message back at its original position
RequeueAt(q, m) ==
    LET before == SelectSeq(q, LAMBDA x : x.id < m.id)
        after  == SelectSeq(q, LAMBDA x : x.id > m.id)
    IN before \o <<m>> \o after

\* a producer publishes a message to q.plans.proposed
Produce ==
    /\ produced < MaxProduced
    /\ \E b \in Bodies :
          q_plans_proposed' = Append(q_plans_proposed, [id |-> nextId, body |-> b])
    /\ nextId' = nextId + 1
    /\ produced' = produced + 1
    /\ Disturb
    /\ UNCHANGED <<q_plans_approved, abandoned, acked, failures, invocations,
                   passVars, fetched, startQ, destStart, emptySeen, ackLog>>
    /\ UNCHANGED healthVars

\* the connection of an aborted pass goes away (it was never closed): the
\* broker returns its un-acked delivery to the ready messages
Requeue ==
    /\ \E m \in abandoned :
          /\ q_plans_proposed' = RequeueAt(q_plans_proposed, m)
          /\ abandoned' = abandoned \ {m}
    /\ Disturb
    /\ UNCHANGED <<q_plans_approved, acked, nextId, produced, failures,
                   invocations, passVars, fetched, startQ, destStart, emptySeen, ackLog>>
    /\ UNCHANGED healthVars

(* ------------------------ forward_plans_to_approved -------------------- *)
\* variant: the handler settles the delivery it holds, which leaves the source
ExceptHandler_drops(p, e) ==
    /\ pc' = [pc EXCEPT ![p] = "aborted"]
    /\ result' = [result EXCEPT ![p] = [status_code |-> 500, detail |-> e]]
    /\ abandoned' = abandoned
    /\ unacked' = [unacked EXCEPT ![p] = NoMsg]

\* except Exception as e: raise HTTPException(500, "Failed to forward
\* plans: <e>").  Nothing is acked, rejected or closed on this path: the
\* delivery the channel holds stays un-acked on the abandoned connection.
ExceptHandler(p, e) ==
    /\ pc' = [pc EXCEPT ![p] = "aborted"]
    /\ result' = [result EXCEPT ![p] = [status_code |-> 500, detail |-> e]]
    /\ abandoned' = IF unacked[p] = NoMsg THEN abandoned ELSE abandoned \cup {unacked[p]}
    /\ unacked' = [unacked EXCEPT ![p] = NoMsg]

\* a broker call raises
BrokerRaises ==
    /\ failures < MaxFailures
    /\ failures' = failures + 1

\* the handler is invoked: connection = pika.BlockingConnection(...);
\* channel = connection.channel(); forwarded_count = 0
Invoke(p) ==
    /\ pc[p] \in {"idle", "done", "aborted"}
    /\ invocations < MaxPasses
    /\ pc' = [pc EXCEPT ![p] = "get"]
    /\ connection' = [connection EXCEPT ![p] = "open"]
    /\ forwarded_count' = [forwarded_count EXCEPT ![p] = 0]
    /\ result' = [result EXCEPT ![p] = None]
    /\ plan' = [plan EXCEPT ![p] = <<>>]
    /\ fetched' = [fetched EXCEPT ![p] = <<>>]
    /\ startQ' = [startQ EXCEPT ![p] = q_plans_proposed]
    /\ destStart' = [destStart EXCEPT ![p] = Len(q_plans_approved)]
    /\ quiet' = [quiet EXCEPT ![p] = TRUE]
    /\ emptySeen' = [emptySeen EXCEPT ![p] = 0]
    /\ ackLog' = [ackLog EXCEPT ![p] = <<>>]
    /\ invocations' = invocations + 1
    /\ UNCHANGED <<q_plans_proposed, q_plans_approved, abandoned, acked, nextId,
                   produced, failures, unacked>>
    /\ UNCHANGED healthVars

\* the handler is invoked and the broker is unreachable
InvokeRaises(p) ==
    /\ pc[p] \in {"idle", "done", "aborted"}
    /\ invocations < MaxPasses
    /\ BrokerRaises
    /\ connection' = [connection EXCEPT ![p] = "none"]
    /\ forwarded_count' = [forwarded_count EXCEPT ![p] = 0]
    /\ plan' = [plan EXCEPT ![p] = <<>>]
    /\ fetched' = [fetched EXCEPT ![p] = <<>>]
    /\ startQ' = [startQ EXCEPT ![p] = q_plans_proposed]
    /\ destStart' = [destStart EXCEPT ![p] = Len(q_plans_approved)]
    /\ quiet' = [quiet EXCEPT ![p] = TRUE]
    /\ emptySeen' = [emptySeen EXCEPT ![p] = 0]
    /\ ackLog' = [ackLog EXCEPT ![p] = <<>>]
    /\ ExceptHandler(p, "connect")
    /\ invocations' = invocations + 1
    /\ UNCHANGED <<q_plans_proposed, q_plans_approved, acked, nextId, produced>>
    /\ UNCHANGED healthVars

\* where the handler goes with v, what json.loads made of the body: it
\* raised -> the inner except acks and continues; otherwise the
\* plan[...] = ... assignments on the loaded value succeed or raise TypeError
AfterGet(v) ==
    IF v.raised THEN "ack_bad"
    ELSE IF SupportsItemAssignment(v) THEN "publish"
    ELSE "TypeError"

\* variant: the loop keeps polling an empty queue, a long-running consumer
OnEmpty_polls(p) ==
    /\ pc' = [pc EXCEPT ![p] = "get"]
    /\ emptySeen' = [emptySeen EXCEPT ![p] = nextId]

\* if not method: break
OnEmpty(p) ==
    /\ pc' = [pc EXCEPT ![p] = "close"]
    /\ emptySeen' = [emptySeen EXCEPT ![p] = nextId]

\* method, properties, body = channel.basic_get("q.plans.proposed",
\* auto_ack=False), then the decoding and stamping up to the next broker call
basic_get(p) ==
    /\ pc[p] = "get"
    /\ IF q_plans_proposed = <<>>
       THEN /\ OnEmpty(p)
            /\ UNCHANGED <<q_plans_proposed, abandoned, unacked, plan, result, fetched>>
       ELSE \E v \in {json_loads(Head(q_plans_proposed).body)} :
                LET m == Head(q_plans_proposed)
                IN  /\ q_plans_proposed' = Tail(q_plans_proposed)
                    /\ fetched' = [fetched EXCEPT ![p] = Append(@, m)]
                    /\ UNCHANGED emptySeen
                    /\ IF AfterGet(v) = "TypeError"
                       THEN /\ abandoned' = abandoned \cup {m}
                            /\ pc' = [pc EXCEPT ![p] = "aborted"]
                            /\ result' = [result EXCEPT ![p] =
                                             [status_code |-> 500, detail |-> "TypeError"]]
                            /\ UNCHANGED <<unacked, plan>>
                       ELSE /\ unacked' = [unacked EXCEPT ![p] = m]
                            /\ pc' = [pc EXCEPT ![p] = AfterGet(v)]
                            /\ plan' = [plan EXCEPT ![p] =
                                           IF AfterGet(v) = "publish"
                                           THEN Approve(v.value) ELSE <<>>]
                            /\ UNCHANGED <<abandoned, result>>
    /\ UNCHANGED <<q_plans_approved, acked, nextId, produced, failures, invocations,
                   connection, forwarded_count, startQ, destStart, quiet, ackLog>>
    /\ UNCHANGED healthVars

basic_get_raises(p) ==
    /\ pc[p] = "get"
    /\ BrokerRaises
    /\ ExceptHandler(p, "basic_get")
    /\ UNCHANGED <<q_plans_proposed, q_plans_approved, acked, nextId, produced,
                   invocations, connection, plan, forwarded_count, ghostVars>>
    /\ UNCHANGED healthVars

\* except Exception: channel.basic_ack(delivery_tag); continue
\* variant: the except branch continues without acknowledging
ack_undecodable_deferred(p) ==
    /\ pc[p] = "ack_bad"
    /\ pc' = [pc EXCEPT ![p] = "get"]
    /\ UNCHANGED <<brokerVars, connection, unacked, plan, forwarded_count, result,
                   ghostVars>>
    /\ UNCHANGED healthVars

ack_undecodable(p) ==
    /\ pc[p] = "ack_bad"
    /\ acked' = acked \cup {unacked[p]}
    /\ ackLog' = [ackLog EXCEPT ![p] = Append(@, unacked[p])]
    /\ unacked' = [unacked EXCEPT ![p] = NoMsg]
    /\ pc' = [pc EXCEPT ![p] = "get"]
    /\ UNCHANGED <<q_plans_proposed, q_plans_approved, abandoned, nextId, produced,
                   failures, invocations, connection, plan, forwarded_count, result,
                   fetched, startQ, destStart, quiet, emptySeen>>
    /\ UNCHANGED healthVars

ack_undecodable_raises(p) ==
    /\ pc[p] = "ack_bad"
    /\ BrokerRaises
    /\ ExceptHandler(p, "basic_ack")
    /\ UNCHANGED <<q_plans_proposed, q_plans_approved, acked, nextId, produced,
                   invocations, connection, plan, forwarded_count, ghostVars>>
    /\ UNCHANGED healthVars

\* variant: the relay stamps each copy with its position in the destination
basic_publish_stamped(p) ==
    /\ pc[p] = "publish"
    /\ q_plans_approved' =
          Append(q_plans_approved,
                 [body |-> json_dumps(Append(plan[p],
                               <<"relay_seq", ToString(Len(q_plans_approved))>>)),
                  src |-> unacked[p], by |-> p])
    /\ pc' = [pc EXCEPT ![p] = "ack"]
    /\ UNCHANGED <<q_plans_proposed, abandoned, acked, nextId, produced, failures,
                   invocations, connection, unacked, plan, forwarded_count, result,
                   ghostVars>>
    /\ UNCHANGED healthVars

\* variant: the delivery is acknowledged before its copy is published
basic_publish_acks_first(p) ==
    /\ pc[p] = "publish"
    /\ acked' = acked \cup {unacked[p]}
    /\ ackLog' = [ackLog EXCEPT ![p] = Append(@, unacked[p])]
    /\ q_plans_approved' = Append(q_plans_approved,
                                  [body |-> json_dumps(plan[p]), src |-> unacked[p],
                                   by |-> p])
    /\ pc' = [pc EXCEPT ![p] = "ack"]
    /\ UNCHANGED <<q_plans_proposed, abandoned, nextId, produced, failures,
                   invocations, connection, unacked, plan, forwarded_count, result,
                   fetched, startQ, destStart, quiet, emptySeen>>
    /\ UNCHANGED healthVars

\* variant: the copy jumps the destination queue
basic_publish_front(p) ==
    /\ pc[p] = "publish"
    /\ q_plans_approved' =
          SubSeq(q_plans_approved, 1, destStart[p])
          \o <<[body |-> json_dumps(plan[p]), src |-> unacked[p], by |-> p]>>
          \o SubSeq(q_plans_approved, destStart[p] + 1, Len(q_plans_approved))
    /\ pc' = [pc EXCEPT ![p] = "ack"]
    /\ UNCHANGED <<q_plans_proposed, abandoned, acked, nextId, produced, failures,
                   invocations, connection, unacked, plan, forwarded_count, result,
                   ghostVars>>
    /\ UNCHANGED healthVars

\* channel.basic_publish(exchange="", routing_key="q.plans.approved",
\* body=json.dumps(plan), delivery_mode=2)
basic_publish(p) ==
    /\ pc[p] = "publish"
    /\ q_plans_approved' = Append(q_plans_approved,
                                  [body |-> json_dumps(plan[p]), src |-> unacked[p],
                                   by |-> p])
    /\ pc' = [pc EXCEPT ![p] = "ack"]
    /\ UNCHANGED <<q_plans_proposed, abandoned, acked, nextId, produced, failures,
                   invocations, connection, unacked, plan, forwarded_count, result,
                   ghostVars>>
    /\ UNCHANGED healthVars

\* variant: the publish error is caught and logged inside the loop, and the
\* loop goes on to acknowledge the message
basic_publish_raises_swallowed(p) ==
    /\ pc[p] = "publish"
    /\ BrokerRaises
    /\ pc' = [pc EXCEPT ![p] = "ack"]
    /\ UNCHANGED <<q_plans_proposed, q_plans_approved, abandoned, acked, nextId,
                   produced, invocations, connection, unacked, plan,
                   forwarded_count, result, ghostVars>>
    /\ UNCHANGED healthVars

basic_publish_raises(p) ==
    /\ pc[p] = "publish"
    /\ BrokerRaises
    /\ ExceptHandler(p, "basic_publish")
    /\ UNCHANGED <<q_plans_proposed, q_plans_approved, acked, nextId, produced,
                   invocations, connection, plan, forwarded_count, ghostVars>>
    /\ UNCHANGED healthVars

\* channel.basic_ack(delivery_tag=method.delivery_tag); forwarded_count += 1
basic_ack(p) ==
    /\ pc[p] = "ack"
    /\ acked' = acked \cup {unacked[p]}
    /\ ackLog' = [ackLog EXCEPT ![p] = Append(@, unacked[p])]
    /\ unacked' = [unacked EXCEPT ![p] = NoMsg]
    /\ forwarded_count' = [forwarded_count EXCEPT ![p] = @ + 1]
    /\ pc' = [pc EXCEPT ![p] = "get"]
    /\ UNCHANGED <<q_plans_proposed, q_plans_approved, abandoned, nextId, produced,
                   failures, invocations, connection, plan, result,
                   fetched, startQ, destStart, quiet, emptySeen>>
    /\ UNCHANGED healthVars

\* variant: a failed basic_ack is tried again
basic_ack_raises_retries(p) ==
    /\ pc[p] = "ack"
    /\ BrokerRaises
    /\ UNCHANGED <<q_plans_proposed, q_plans_approved, abandoned, acked, nextId,
                   produced, invocations, passVars, ghostVars>>
    /\ UNCHANGED healthVars

basic_ack_raises(p) ==
    /\ pc[p] = "ack"
    /\ BrokerRaises
    /\ ExceptHandler(p, "basic_ack")
    /\ UNCHANGED <<q_plans_proposed, q_plans_approved, acked, nextId, produced,
                   invocations, connection, plan, forwarded_count, ghostVars>>
    /\ UNCHANGED healthVars

\* variant: the count returned is the number of messages fetched
close_counts_fetched(p) ==
    /\ pc[p] = "close"
    /\ connection' = [connection EXCEPT ![p] = "closed"]
    /\ result' = [result EXCEPT ![p] =
                     [status |-> "success", forwarded_count |-> Len(fetched[p])]]
    /\ pc' = [pc EXCEPT ![p] = "done"]
    /\ UNCHANGED <<brokerVars, unacked, plan, forwarded_count, ghostVars>>
    /\ UNCHANGED healthVars

\* connection.close(); return {"status": "success", "forwarded_count": ...}
close(p) ==
    /\ pc[p] = "close"
    /\ connection' = [connection EXCEPT ![p] = "closed"]
    /\ result' = [result EXCEPT ![p] =
                     [status |-> "success", forwarded_count |-> forwarded_count[p]]]
    /\ pc' = [pc EXCEPT ![p] = "done"]
    /\ UNCHANGED <<brokerVars, unacked, plan, forwarded_count, ghostVars>>
    /\ UNCHANGED healthVars

close_raises(p) ==
    /\ pc[p] = "close"
    /\ BrokerRaises
    /\ ExceptHandler(p, "close")
    /\ UNCHANGED <<q_plans_proposed, q_plans_approved, acked, nextId, produced,
                   invocations, connection, plan, forwarded_count, ghostVars>>
    /\ UNCHANGED healthVars

\* one step of a pass in progress
PassStep(p) ==
    \/ basic_get(p)
    \/ basic_get_raises(p)
    \/ ack_undecodable(p)
    \/ ack_undecodable_raises(p)
    \/ basic_publish(p)
    \/ basic_publish_raises(p)
    \/ basic_ack(p)
    \/ basic_ack_raises(p)
    \/ close(p)
    \/ close_raises(p)

(* ---------------------------- health_check ----------------------------- *)
relayVars == <<brokerVars, passVars, ghostVars>>

\* GET /health is called: health_status = {}; the client is created
health_check ==
    /\ hpc \in {"idle", "returned"}
    /\ hpc' = "loop"
    /\ agent_i' = 1
    /\ health_status' = [a \in Agents |-> Absent]
    /\ health_result' = None
    /\ probes' = [a \in Agents |-> [kind |-> "none"]]
    /\ UNCHANGED relayVars

\* the loop reaches agent a: await client.get(f"{url}/health", timeout=5.0)
\* is issued and the handler is suspended on it
client_get(a) ==
    /\ hpc = "loop"
    /\ agent_i <= Len(AGENT_ENDPOINTS)
    /\ a = AGENT_ENDPOINTS[agent_i]
    /\ hpc' = "await"
    /\ probes' = [probes EXCEPT ![a] = [kind |-> "pending"]]
    /\ UNCHANGED <<agent_i, health_status, health_result, relayVars>>

\* variant: an exception of the probe is not caught inside the loop
client_get_raises_uncaught(a) ==
    /\ hpc = "await"
    /\ a = AGENT_ENDPOINTS[agent_i]
    /\ \E e \in ProbeErrors :
          /\ probes' = [probes EXCEPT ![a] = [kind |-> "raised", error |-> e]]
          /\ health_result' = [status_code |-> 500, detail |-> e]
    /\ hpc' = "returned"
    /\ UNCHANGED <<agent_i, health_status, relayVars>>

\* the awaited get raises (timeout, connection refused): except Exception
\* records the agent as unhealthy with str(e), and the loop goes on
client_get_raises(a) ==
    /\ hpc = "await"
    /\ a = AGENT_ENDPOINTS[agent_i]
    /\ \E e \in ProbeErrors :
          /\ probes' = [probes EXCEPT ![a] = [kind |-> "raised", error |-> e]]
          /\ health_status' = [health_status EXCEPT ![a] =
                                   [status |-> "unhealthy", error |-> e]]
    /\ agent_i' = agent_i + 1
    /\ hpc' = "loop"
    /\ UNCHANGED <<health_result, relayVars>>

\* the awaited get returns a response: the entry is made of response.json()
client_get_returns(a) ==
    /\ hpc = "await"
    /\ a = AGENT_ENDPOINTS[agent_i]
    /\ \E r \in Responses :
          /\ probes' = [probes EXCEPT ![a] = [kind |-> "response", response |-> r]]
          /\ health_status' = [health_status EXCEPT ![a] = HealthEntry(r)]
    /\ agent_i' = agent_i + 1
    /\ hpc' = "loop"
    /\ UNCHANGED <<health_result, relayVars>>

\* after the loop: return {"gateway": "healthy", "agents": health_status, ...}
\* (the timestamp is left out)
health_return ==
    /\ hpc = "loop"
    /\ agent_i > Len(AGENT_ENDPOINTS)
    /\ health_result' = [gateway |-> "healthy", agents |-> health_status]
    /\ hpc' = "returned"
    /\ UNCHANGED <<agent_i, health_status, probes, relayVars>>

HealthNext ==
    \/ health_check
    \/ \E a \in Agents : client_get(a)
    \/ \E a \in Agents : client_get_raises(a)
    \/ \E a \in Agents : client_get_returns(a)
    \/ health_return

\* the health operation alone, the agents answering as they like
HealthSpec == Init /\ [][HealthNext]_vars

(* --------------------------- specifications ---------------------------- *)
\* one gateway worker: passes follow each other, a producer and the broker
\* act in between
Next ==
    \/ Invoke(1)
    \/ InvokeRaises(1)
    \/ PassStep(1)
    \/ Produce
    \/ Requeue

Spec == Init /\ [][Next]_vars

\* the handler, once invoked, runs: every broker call returns or raises
LiveSpec == Init /\ [][Next]_vars /\ WF_vars(PassStep(1))

\* one step of a pass in progress when every broker call returns
PassStepOk(p) ==
    \/ basic_get(p)
    \/ ack_undecodable(p)
    \/ basic_publish(p)
    \/ basic_ack(p)
    \/ close(p)

\* a worker is invoked while no pass has ended yet: the passes overlap
ConcInvoke(p) ==
    /\ \A q \in Passes : ~Ended(q)
    /\ pc[p] = "idle"
    /\ Invoke(p)

\* two gateway workers run the handler on the same queues at the same time,
\* the broker answering every call
ConcNext ==
    \/ \E p \in Passes : ConcInvoke(p)
    \/ \E p \in Passes : PassStepOk(p)
    \/ Produce
    \/ Requeue

ConcSpec == Init /\ [][ConcNext]_vars

(* ------------------------------ vocabulary ----------------------------- *)
Range(q) == {q[i] : i \in 1..Len(q)}

\* the body decodes to a RelayMessage: a mapping with string keys
WellFormed(m) ==
    LET v == json_loads(m.body) IN ~v.raised /\ v.type = "dict"

\* m is still a message of the source queue: ready, or delivered and un-acked
InSource(m) ==
    \/ m \in Range(q_plans_proposed)
    \/ m \in abandoned
    \/ \E p \in Passes : unacked[p] = m

\* what pass p has published since it was invoked, in destination order
Added(p) ==
    SelectSeq(SubSeq(q_plans_approved, destStart[p] + 1, Len(q_plans_approved)),
              LAMBDA e : e.by = p)

Srcs(es) == [i \in 1..Len(es) |-> es[i].src]

\* the destination copy the relay makes of a well-formed delivery
Relayed(m) == json_dumps(Approve(json_loads(m.body).value))

\* the pass ended because a broker call raised
BrokerFailed(p) == pc[p] = "aborted" /\ result[p].detail # "TypeError"

(* -------------------------------- claims ------------------------------- *)

\* C1: a pass that nothing disturbed (no broker call raised, no producer,
\* no redelivery) ends with the source queue empty, every message it found
\* removed, the destination extended by exactly the relayed copies of the
\* well-formed messages in order, and forwarded_count returned equal to
\* their number.
C1_PassDrainsSource ==
    \A p \in Passes :
        (Ended(p) /\ quiet[p] /\ ~BrokerFailed(p)) =>
            LET wf == SelectSeq(startQ[p], WellFormed)
            IN  /\ pc[p] = "done"
                /\ q_plans_proposed = <<>>
                /\ \A m \in Range(startQ[p]) : m \in acked /\ ~InSource(m)
                /\ Len(Added(p)) = Len(wf)
                /\ \A i \in 1..Len(wf) :
                      /\ Added(p)[i].src = wf[i]
                      /\ Added(p)[i].body = Relayed(wf[i])
                /\ result[p] = [status |-> "success", forwarded_count |-> Len(wf)]

\* C2: a well-formed message is acknowledged on the source only in a step
\* that finds its copy already published to the destination by this pass.
C2_AckAfterPublish ==
    [][\A p \in Passes :
          (unacked[p] # NoMsg /\ unacked[p] \in acked' \ acked /\ WellFormed(unacked[p]))
              => \E i \in 1..Len(Added(p)) : Added(p)[i].src = unacked[p]]_vars

C2_Witness ==
    \E m \in acked : WellFormed(m) /\ \E i \in 1..Len(q_plans_approved) :
                                          q_plans_approved[i].src = m

\* C3: once a pass has ended without a broker call raising, every malformed
\* message it fetched has been acknowledged and none of them is in the
\* destination.
C3_MalformedRemoved ==
    \A p \in Passes :
        (Ended(p) /\ ~BrokerFailed(p)) =>
            \A m \in Range(fetched[p]) :
                ~WellFormed(m) =>
                    /\ m \in acked
                    /\ \A i \in 1..Len(q_plans_approved) : q_plans_approved[i].src # m

\* C4: a message that does not decode to a RelayMessage never aborts a pass
\* and is never left un-acknowledged for a later pass to fetch again.
C4_UndecodableNeverAborts ==
    /\ \A p \in Passes : pc[p] = "aborted" => result[p].detail # "TypeError"
    /\ failures = 0 => \A m \in abandoned : WellFormed(m)

\* C5: when the publish of the k-th fetched message raises and the k-1
\* messages before it were well-formed, the pass has aborted with those k-1
\* out of the source and in the destination, message k un-acknowledged, not
\* published and still in the source, and the messages it had not fetched
\* still ready.
C5_PublishFailureKeepsProgress ==
    \A p \in Passes :
        (/\ pc[p] = "aborted"
         /\ result[p].detail = "basic_publish"
         /\ \A i \in 1..(Len(fetched[p]) - 1) : WellFormed(fetched[p][i]))
        => LET k == Len(fetched[p])
           IN  /\ k >= 1
               /\ Len(Added(p)) = k - 1
               /\ \A i \in 1..(k - 1) :
                     /\ Added(p)[i].src = fetched[p][i]
                     /\ fetched[p][i] \in acked
                     /\ ~InSource(fetched[p][i])
               /\ fetched[p][k] \notin acked
               /\ InSource(fetched[p][k])
               /\ \A m \in Range(startQ[p]) \ Range(fetched[p]) :
                     m \in Range(q_plans_proposed)

C5_Witness ==
    /\ pc[1] = "aborted"
    /\ result[1].detail = "basic_publish"
    /\ Len(fetched[1]) >= 2
    /\ \A i \in 1..Len(fetched[1]) : WellFormed(fetched[1][i])
    /\ Range(startQ[1]) \ Range(fetched[1]) # {}

\* C6: when a pass aborts because the publish of the k-th message raised
\* (the k-1 before it well-formed), the result the caller receives carries
\* a forwarded count, and that count is k-1.
C6_AbortReportsCount ==
    \A p \in Passes :
        (/\ pc[p] = "aborted"
         /\ result[p].detail = "basic_publish"
         /\ \A i \in 1..(Len(fetched[p]) - 1) : WellFormed(fetched[p][i]))
        => /\ "forwarded_count" \in DOMAIN result[p]
           /\ result[p].forwarded_count = Len(fetched[p]) - 1

\* C7: every message in the destination queue decodes to a mapping whose
\* status is "approved" and whose approved_by is "gateway".
C7_DestinationApproved ==
    \A i \in 1..Len(q_plans_approved) :
        LET v == json_loads(q_plans_approved[i].body)
        IN  /\ ~v.raised
            /\ v.type = "dict"
            /\ HasKey(v.value, "status")
            /\ DictGet(v.value, "status") = "approved"
            /\ HasKey(v.value, "approved_by")
            /\ DictGet(v.value, "approved_by") = "gateway"

\* a forwarded message that arrived with another status and no approved_by
C7_Witness ==
    \E i \in 1..Len(q_plans_approved) :
        LET s == json_loads(q_plans_approved[i].src.body).value
        IN  /\ HasKey(s, "status") /\ DictGet(s, "status") # "approved"
            /\ ~HasKey(s, "approved_by")

Reserved == {"status", "approved_by"}

\* C8: the destination copy of a forwarded message has the keys of the source
\* message plus status and approved_by, and under every other key the value
\* the source message has.
C8_OtherKeysPassThrough ==
    \A i \in 1..Len(q_plans_approved) :
        LET s == json_loads(q_plans_approved[i].src.body).value
            d == json_loads(q_plans_approved[i].body).value
        IN  /\ Keys(d) = Keys(s) \cup Reserved
            /\ \A k \in Keys(s) \ Reserved : DictGet(d, k) = DictGet(s, k)

C8_Witness ==
    \E i \in 1..Len(q_plans_approved) :
        Keys(json_loads(q_plans_approved[i].src.body).value) \ Reserved # {}

\* C9: what a pass has published is, in destination order, a prefix of the
\* well-formed messages in the order basic_get returned them, and all of
\* them once the pass has completed.
C9_PublishedInFetchOrder ==
    \A p \in Passes :
        pc[p] # "idle" =>
            LET wf  == SelectSeq(fetched[p], WellFormed)
                pub == Srcs(Added(p))
            IN  /\ Len(pub) <= Len(wf)
                /\ \A i \in 1..Len(pub) : pub[i] = wf[i]
                /\ pc[p] = "done" => pub = wf

\* two forwarded messages with a malformed one fetched between them
C9_Witness ==
    /\ pc[1] = "done"
    /\ Len(Added(1)) >= 2
    /\ Len(fetched[1]) > Len(Added(1))

\* C10: a pass that has seen basic_get report empty only closes and returns:
\* it fetches, publishes and acknowledges nothing more, whatever is or comes
\* into the source queue stays there, and every pass in progress ends.
C10_StopsAtEmpty ==
    /\ [](\A p \in Passes : emptySeen[p] # 0 => pc[p] \in {"close", "done", "aborted"})
    /\ [][\A p \in Passes :
            (emptySeen[p] # 0 /\ emptySeen'[p] # 0) =>
                /\ fetched'[p] = fetched[p]
                /\ Added(p)' = Added(p)
                /\ acked' = acked
                /\ forwarded_count'[p] = forwarded_count[p]
                /\ Range(q_plans_proposed) \subseteq Range(q_plans_proposed')]_vars
    /\ \A p \in {1} : Running(p) ~> Ended(p)

\* a message the producer added after the pass saw the queue empty is still
\* ready when the pass has returned
C10_Witness ==
    /\ pc[1] = "done"
    /\ \E m \in Range(q_plans_proposed) : m.id >= emptySeen[1]

\* how many times pass p has acknowledged delivery m since it was invoked; the
\* handler has no basic_reject or basic_nack call, so these are all the
\* settlements a delivery tag can get
Settlements(p, m) ==
    Cardinality({i \in 1..Len(ackLog[p]) : ackLog[p][i] = m})

\* C11: when a pass has ended, on whatever path, the connection it opened
\* at its start has been closed.
C11_ConnectionClosedAtEnd ==
    \A p \in Passes : Ended(p) => connection[p] # "open"

\* C12: when a pass has ended, every delivery it fetched has been settled
\* exactly once: not twice, and not left without ack or reject.
C12_ExactlyOneSettlement ==
    \A p \in Passes :
        Ended(p) => \A m \in Range(fetched[p]) : Settlements(p, m) = 1

\* C13: whatever broker call raises, every message the producer put in the
\* source queue is either still a message of the source or acknowledged, and
\* every acknowledged well-formed message has at least one copy in the
\* destination.
C13_AtLeastOnce ==
    /\ \A i \in 1..(nextId - 1) :
          \E m \in Range(q_plans_proposed) \cup abandoned \cup acked
                   \cup {unacked[p] : p \in Passes} : m.id = i
    /\ \A m \in acked :
          WellFormed(m) =>
              \E i \in 1..Len(q_plans_approved) : q_plans_approved[i].src = m

\* a pass aborted by a failed publish after it had forwarded a message, the
\* message of the failed publish being back in the source
C13_Witness ==
    /\ pc[1] = "aborted"
    /\ result[1].detail = "basic_publish"
    /\ \E m \in acked : WellFormed(m)
    /\ \E m \in abandoned : WellFormed(m) /\ m \notin acked

\* the deliveries pass p has fetched and not acknowledged
InFlight(p) == {m \in Range(fetched[p]) : Settlements(p, m) = 0}

NoRepeat(q) == \A i, j \in 1..Len(q) : q[i] = q[j] => i = j

\* C17: a pass whose basic_ack raised after the publish succeeded has ended
\* with the message published, not acknowledged and still in the source; and
\* the copies the destination holds of one source message have the same
\* payload, nothing in it telling them apart.
C17_DuplicateAfterAckFailure ==
    /\ \A p \in Passes :
          (/\ pc[p] = "aborted"
           /\ result[p].detail = "basic_ack"
           /\ WellFormed(fetched[p][Len(fetched[p])]))
          => LET m == fetched[p][Len(fetched[p])]
             IN  /\ \E i \in 1..Len(Added(p)) : Added(p)[i].src = m
                 /\ Settlements(p, m) = 0
                 /\ m \notin acked
                 /\ InSource(m)
    /\ \A i, j \in 1..Len(q_plans_approved) :
          q_plans_approved[i].src = q_plans_approved[j].src
              => q_plans_approved[i].body = q_plans_approved[j].body

\* a later pass has forwarded the message again: the destination holds two
\* copies of it
C17_Witness ==
    \E i, j \in 1..Len(q_plans_approved) :
        /\ i < j
        /\ q_plans_approved[i].src = q_plans_approved[j].src
        /\ q_plans_approved[i].body = q_plans_approved[j].body
        /\ q_plans_approved[j].src \in acked

\* C18: since its invocation a pass has fetched no message twice and
\* published no message twice, and a broker call that raises is not tried
\* again: the step in which it raises ends the pass, with nothing published
\* or acknowledged in it.
C18_NoRetry ==
    /\ [](\A p \in Passes : NoRepeat(fetched[p]) /\ NoRepeat(Srcs(Added(p))))
    /\ [][failures' # failures =>
            /\ \E p \in Passes :
                  /\ Running(p) \/ invocations' # invocations
                  /\ pc'[p] = "aborted"
            /\ q_plans_approved' = q_plans_approved
            /\ acked' = acked]_vars

\* a pass ended by a raising broker call after its second fetch
C18_Witness ==
    /\ pc[1] = "aborted"
    /\ BrokerFailed(1)
    /\ Len(fetched[1]) >= 2
    /\ InFlight(1) # {}

\* C19: a pass in progress holds at most one fetched message that it has not
\* acknowledged, and none when it is about to fetch: every message fetched
\* before has been acknowledged.
C19_OneInFlight ==
    \A p \in Passes :
        /\ Running(p) => Cardinality(InFlight(p)) <= 1
        /\ pc[p] = "get" => InFlight(p) = {}
        /\ pc[p] \in {"ack_bad", "publish", "ack"} => InFlight(p) = {unacked[p]}

\* the second message of a pass in flight, the first acknowledged
C19_Witness ==
    /\ pc[1] = "ack"
    /\ Len(fetched[1]) >= 2
    /\ InFlight(1) = {fetched[1][Len(fetched[1])]}

\* C20: forwarded_count is at every step the number of messages the pass has
\* both published and acknowledged (an acknowledged malformed message does
\* not count), and the count a completed pass returns is the number of
\* messages it added to the destination.
C20_CountIsForwarded ==
    \A p \in Passes :
        /\ pc[p] # "idle" =>
              forwarded_count[p] =
                  Cardinality({i \in 1..Len(Added(p)) : Settlements(p, Added(p)[i].src) = 1})
        /\ pc[p] = "done" =>
              /\ result[p].status = "success"
              /\ result[p].forwarded_count = Len(Added(p))

\* a completed pass that forwarded a message and skipped a malformed one
C20_Witness ==
    /\ pc[1] = "done"
    /\ result[1].forwarded_count >= 1
    /\ Len(ackLog[1]) > result[1].forwarded_count

\* C16: of two passes that overlap with no broker call failing, a message
\* one has fetched is not visible to the other; when both have ended, no
\* message was fetched by both, no message is in the destination twice, and
\* the forwarded counts the two return add up to the number of messages
\* forwarded.
C16_ConcurrentPassesPartition ==
    /\ \A p \in Passes :
          unacked[p] # NoMsg =>
              /\ unacked[p] \notin Range(q_plans_proposed)
              /\ \A q \in Passes \ {p} : unacked[q] # unacked[p]
    /\ (Ended(1) /\ Ended(2)) =>
          /\ Range(fetched[1]) \cap Range(fetched[2]) = {}
          /\ NoRepeat(Srcs(q_plans_approved))
          /\ \A p \in Passes : "forwarded_count" \in DOMAIN result[p]
          /\ result[1].forwarded_count + result[2].forwarded_count
                 = Len(q_plans_approved)

\* the entry the health operation owes agent a for what its probe did
Outcome(a) ==
    CASE probes[a].kind = "raised" ->
             [status |-> "unhealthy", error |-> probes[a].error]
      [] probes[a].kind = "response" /\ probes[a].response.body.kind = "bytes" ->
             [status |-> "unhealthy", error |-> "JSONDecodeError"]
      [] probes[a].kind = "response" /\ probes[a].response.body.kind # "bytes" ->
             [status |-> "healthy", response |-> json_loads(probes[a].response.body)]
      [] OTHER -> Absent

\* C14: the health operation always returns the mapping, never an error; the
\* mapping has one entry for each agent: healthy with the decoded response
\* when the probe answered JSON, unhealthy with the error when it timed out,
\* was refused or answered a malformed body; and an entry once made is what
\* its own probe did, whatever the probes after it do.
C14_OneOutcomePerTarget ==
    /\ \A a \in Agents :
          probes[a].kind \in {"raised", "response"} => health_status[a] = Outcome(a)
    /\ hpc = "returned" =>
          /\ DOMAIN health_result = {"gateway", "agents"}
          /\ health_result.gateway = "healthy"
          /\ DOMAIN health_result.agents = Agents
          /\ \A a \in Agents :
                /\ health_result.agents[a] # Absent
                /\ health_result.agents[a] = Outcome(a)

\* one agent healthy, one timed out, one refused and one malformed, in one
\* returned mapping
C14_Witness ==
    /\ hpc = "returned"
    /\ \E a, b, c, d \in Agents :
          /\ health_result.agents[a].status = "healthy"
          /\ probes[b] = [kind |-> "raised", error |-> "ReadTimeout"]
          /\ probes[c] = [kind |-> "raised", error |-> "ConnectError"]
          /\ probes[d].kind = "response" /\ probes[d].response.body = NotJson
          /\ health_result.agents[b].status = "unhealthy"

\* C15: the probes are issued concurrently: while a probe is in flight and
\* another agent's probe has not been started, the probe of some agent not
\* yet started can be started at once, without the one in flight completing
\* or timing out.
C15_ProbesConcurrent ==
    LET pending    == {a \in Agents : probes[a].kind = "pending"}
        notStarted == {a \in Agents : probes[a].kind = "none"}
    IN  (hpc \in {"loop", "await"} /\ pending # {} /\ notStarted # {})
            => \E a \in notStarted : ENABLED client_get(a)

====
